---- MODULE Spec2Model ----
(***************************************************************************)
(* Model of niklasbhv/lwm2m-node: a Zephyr node that serves four CoAP      *)
(* resources controlling an LED (src/src/main.c) and, on a debounced       *)
(* button event, runs a fixed CoAP client sequence against a peer          *)
(* (src/src/coap_client.c).                                                *)
(*                                                                         *)
(* Five specifications are defined over the same variables:                *)
(*   Spec        the button work item, the client sequence it runs and the *)
(*               datagrams the peer may put into the client socket;        *)
(*   ServerSpec  the server path: one inbound request dispatched to the    *)
(*               registered resource handlers, acting on the LED;          *)
(*   ApiSpec     the public functions of coap_client.h called in any order *)
(*               (what any caller of the header may do);                   *)
(*   SysSpec     the work queue thread and the service thread side by      *)
(*               side, a handler taking a step to enter and one to return; *)
(*   CodecSpec   a message taken through the encoder and the decoder.      *)
(* The client path and the server path share no variable in the source     *)
(* (the client never touches led_user); Spec and ServerSpec explore each   *)
(* with its full range of inputs, SysSpec their interleaving.              *)
(***************************************************************************)
EXTENDS Integers, Sequences, FiniteSets, TLC

(* ------------------------------------------------------------------ *)
(* Bounds of the exploration                                           *)
(* ------------------------------------------------------------------ *)
MaxRuns == 2
MaxInbox == 1
MaxFd == 1
MaxCalls == 4
MaxTkl == 2
MaxPayload == 2
CooldownTicks == 2

(* ------------------------------------------------------------------ *)
(* Program constants                                                   *)
(* ------------------------------------------------------------------ *)
MAX_COAP_MSG_LEN == 256
COAP_TOKEN_MAX_LEN == 8
COAP_OPTION_URI_PATH == 11
COAP_OPTION_CONTENT_FORMAT == 12
COAP_CONTENT_FORMAT_TEXT_PLAIN == 0
IdModulus == 65536
PointerSize == 4
EIO == 5
EBADF == 9
EAGAIN == 11
ENOMEM == 12
EINVAL == 22
EMFILE == 24
EDESTADDRREQ == 121
COAP_RESPONSE_CODE_CHANGED == 68
COAP_RESPONSE_CODE_CONTENT == 69
COAP_RESPONSE_CODE_BAD_REQUEST == 128

VARIABLES
  sock,      \* coap_client.c: static int sock
  fdOpen,    \* descriptors the fd table holds open
  fdConn,    \* open descriptors that connect() has bound to the peer
  errno,     \* libc errno of the client thread
  gen,       \* token / message-id generator state
  sent,      \* requests the transport accepted since the last socket()
  inbox,     \* receive queue of the socket denoted by sock
  rcvd,      \* datagrams recv() handed to the client since the last socket()
  ret,       \* return value of the last client function
  last,      \* what the last client function did (op, send result)
  phase,     \* "fresh" | "open" | "failed" | "closed"
  heap,      \* what the last client function did with its k_malloc'ed buffers
  calls,     \* number of calls made by the ApiSpec caller
  pc,        \* position of button_event_handler
  evt,       \* event passed to button_event_handler
  pin,       \* logical level of the button pin
  timer,     \* ticks until cooldown_work expires, 0 when not scheduled
  queued,    \* cooldown_work is in the system work queue
  runs,      \* runs of button_event_handler started
  button_cb, \* main.c: static button_event_handler_t button_cb (set or not)
  runLog,    \* client calls of the current run of button_event_handler, with results
  led,       \* logical level of led_user
  srv,       \* the last request the server dispatched and its outcome
  faulted,   \* the node has faulted (undefined behaviour took effect)
  codec      \* a message on its way through the codec: message, bytes, decoded message

clientVars == <<sock, fdOpen, fdConn, errno, gen, sent, inbox, rcvd, ret, last, phase, heap>>
buttonVars == <<pc, evt, pin, timer, queued, runs, button_cb, runLog>>
serverVars == <<led, srv, faulted>>
vars == <<clientVars, calls, buttonVars, serverVars, codec>>

Fds == 0..MaxFd

Min(S) == CHOOSE x \in S : \A y \in S : x <= y

(* ------------------------------------------------------------------ *)
(* Messages                                                            *)
(* ------------------------------------------------------------------ *)
Seg42770 == <<"4", "2", "7", "7", "0">>
Seg42769 == <<"4", "2", "7", "6", "9">>

on_off_toggle_path == <<Seg42770, <<"0">>, <<"8">> >>
on_off_onoff_path == <<Seg42770, <<"0">>, <<"5">> >>
on_off_ontime_path == <<Seg42770, <<"0">>, <<"3">> >>
ontime_payload == <<"2", "0">>

\* Bytes an option header needs beyond its first byte for a delta or length v.
ExtBytes(v) == IF v < 13 THEN 0 ELSE IF v < 269 THEN 1 ELSE 2

RECURSIVE OptionsLen(_, _)
OptionsLen(opts, prev) ==
  IF opts = <<>> THEN 0
  ELSE LET o == Head(opts)
       IN 1 + ExtBytes(o.num - prev) + ExtBytes(Len(o.val)) + Len(o.val)
            + OptionsLen(Tail(opts), o.num)

\* request.offset: the number of bytes the packet occupies in its buffer.
EncodedLen(m) ==
  4 + Len(m.token) + OptionsLen(m.options, 0)
    + (IF m.marker THEN 1 ELSE 0) + Len(m.payload)

UriPathOptions(path) ==
  [i \in 1..Len(path) |-> [num |-> COAP_OPTION_URI_PATH, val |-> path[i]]]

(* ------------------------------------------------------------------ *)
(* Token / message-id generator                                        *)
(* ------------------------------------------------------------------ *)
\* An 8-byte token whose last byte is n.
Tok8(n) == [i \in 1..COAP_TOKEN_MAX_LEN |-> IF i = COAP_TOKEN_MAX_LEN THEN n ELSE 0]

coap_next_token(g) == Tok8(g.tok)
coap_next_id(g) == g.id
GenAdvance(g) == [tok |-> g.tok + 1, id |-> (g.id + 1) % IdModulus]

IdSeeds == {0, IdModulus - 1}


\* A request that reuses the first token and message-id instead of drawing new ones.
NewRequestStale(code, g) ==
  [type |-> "CON", token |-> Tok8(0), code |-> code,
   id |-> 0, options |-> <<>>, marker |-> FALSE, payload |-> <<>>, appended |-> <<>>]

\* coap_packet_init(&request, data, 256, 1, CON, 8, coap_next_token(), code, coap_next_id())
NewRequest(code, g) ==
  [type |-> "CON", token |-> coap_next_token(g), code |-> code,
   id |-> coap_next_id(g), options |-> <<>>, marker |-> FALSE, payload |-> <<>>,
   appended |-> <<>>]

\* What the append calls put into the packet, in the order of the calls
\* (field appended of a message the program builds).
OptionPart(o) == [part |-> "option", num |-> o.num, val |-> o.val]
MarkerPart == [part |-> "marker"]
PayloadPart(bytes) == [part |-> "payload", val |-> bytes]

OptionParts(opts) == [i \in 1..Len(opts) |-> OptionPart(opts[i])]

\* The path appended last segment first.
AppendPathReversed(m, path) ==
  LET opts == UriPathOptions([i \in 1..Len(path) |-> path[Len(path) + 1 - i]])
  IN [m EXCEPT !.options = m.options \o opts,
               !.appended = m.appended \o OptionParts(opts)]

\* The loop of coap_packet_append_option calls over a NULL-terminated path.
AppendPath(m, path) ==
  [m EXCEPT !.options = m.options \o UriPathOptions(path),
            !.appended = m.appended \o OptionParts(UriPathOptions(path))]

\* coap_packet_append_payload_marker followed by coap_packet_append_payload.
AppendPayload(m, bytes) ==
  [m EXCEPT !.marker = TRUE, !.payload = bytes,
            !.appended = m.appended \o <<MarkerPart, PayloadPart(bytes)>>]

ToggleRequest(g) == AppendPath(NewRequest("PUT", g), on_off_toggle_path)
OnOffRequest(g) == AppendPath(NewRequest("GET", g), on_off_onoff_path)
\* The on-time request with the payload appended before the path options.
OnTimeRequestPayloadFirst(g) ==
  AppendPath(AppendPayload(NewRequest("PUT", g), ontime_payload), on_off_ontime_path)

OnTimeRequest(g) ==
  AppendPayload(AppendPath(NewRequest("PUT", g), on_off_ontime_path), ontime_payload)

(* ------------------------------------------------------------------ *)
(* Transport: the socket calls the client makes                        *)
(* ------------------------------------------------------------------ *)
\* send(sock, request.data, request.offset, 0)
SendResult(m, ok) ==
  IF sock \notin fdOpen
    THEN [r |-> -1, errno |-> EBADF, sent |-> sent, badFd |-> TRUE]
  ELSE IF sock \notin fdConn
    THEN [r |-> -1, errno |-> EDESTADDRREQ, sent |-> sent, badFd |-> FALSE]
  ELSE IF ~ok
    THEN [r |-> -1, errno |-> ENOMEM, sent |-> sent, badFd |-> FALSE]
  ELSE [r |-> EncodedLen(m), errno |-> errno, sent |-> Append(sent, m), badFd |-> FALSE]

\* coap_packet_parse(&reply, data, rcvd, NULL, 0)
coap_packet_parse(d) == IF d.kind = "coap" THEN 0 ELSE -EINVAL

\* What process_simple_coap_reply returns for one received datagram.
ReplyResult(d) == IF d.kind = "empty" THEN -EIO ELSE coap_packet_parse(d)

\* One event in the life of a k_malloc'ed buffer: buf is "request" (the data of a
\* request function) or "reply" (the data of process_simple_coap_reply); ev is
\* "nomem" (k_malloc returned NULL), "alloc", "write" (the packet is built in
\* it), "send", "recv", "parse" or "free".
Ev(b, e) == [buf |-> b, ev |-> e]

\* process_simple_coap_reply(): allocate, recv(MSG_DONTWAIT), parse, free.
\* e is errno on entry; mem: k_malloc succeeds; rxFault: recv fails for good.
process_simple_coap_reply(e, mem, rxFault) ==
  IF ~mem
    THEN [ret |-> -ENOMEM, errno |-> e, inbox |-> inbox, rcvd |-> rcvd, badFd |-> FALSE,
          heap |-> <<Ev("reply", "nomem")>>]
  ELSE IF sock \notin fdOpen
    THEN [ret |-> -EBADF, errno |-> EBADF, inbox |-> inbox, rcvd |-> rcvd, badFd |-> TRUE,
          heap |-> <<Ev("reply", "alloc"), Ev("reply", "recv"), Ev("reply", "free")>>]
  ELSE IF rxFault
    THEN [ret |-> -EIO, errno |-> EIO, inbox |-> inbox, rcvd |-> rcvd, badFd |-> FALSE,
          heap |-> <<Ev("reply", "alloc"), Ev("reply", "recv"), Ev("reply", "free")>>]
  ELSE IF inbox = <<>>
    THEN [ret |-> 0, errno |-> EAGAIN, inbox |-> inbox, rcvd |-> rcvd, badFd |-> FALSE,
          heap |-> <<Ev("reply", "alloc"), Ev("reply", "recv"), Ev("reply", "free")>>]
  ELSE [ret |-> ReplyResult(Head(inbox)), errno |-> e, inbox |-> Tail(inbox),
        rcvd |-> Append(rcvd, [d |-> Head(inbox), ret |-> ReplyResult(Head(inbox))]),
        badFd |-> FALSE,
        heap |-> IF Head(inbox).kind = "empty"
                   THEN <<Ev("reply", "alloc"), Ev("reply", "recv"), Ev("reply", "free")>>
                   ELSE <<Ev("reply", "alloc"), Ev("reply", "recv"), Ev("reply", "parse"),
                          Ev("reply", "free")>>]

(* ------------------------------------------------------------------ *)
(* The client functions of coap_client.h                               *)
(* ------------------------------------------------------------------ *)
\* init_coap_client(): socket() then connect(); okSock, okConn: the calls succeed.
init_coap_client(okSock, okConn) ==
  LET free == Fds \ fdOpen
  IN /\ IF okSock /\ free # {}
          THEN /\ sock' = Min(free)
               /\ fdOpen' = fdOpen \cup {Min(free)}
               /\ sent' = <<>>
               /\ inbox' = <<>>
               /\ rcvd' = <<>>
               /\ IF okConn
                    THEN /\ fdConn' = fdConn \cup {Min(free)}
                         /\ errno' = errno
                         /\ ret' = 0
                         /\ phase' = "open"
                    ELSE /\ fdConn' = fdConn
                         /\ errno' = EINVAL
                         /\ ret' = -EINVAL
                         /\ phase' = "failed"
          ELSE /\ sock' = -1
               /\ errno' = (IF free = {} THEN EMFILE ELSE ENOMEM)
               /\ ret' = -errno'
               /\ phase' = "failed"
               /\ UNCHANGED <<fdOpen, fdConn, sent, inbox, rcvd>>
     /\ last' = [op |-> "init", sendr |-> 0, badFd |-> FALSE]
     /\ heap' = <<>>
     /\ UNCHANGED gen

\* A request function that frees its buffer once the packet is built, before
\* it hands the buffer to send.
RequestHeapFreedBeforeSend(mem, built, sendHeap) ==
  IF ~mem THEN <<Ev("request", "nomem")>>
  ELSE <<Ev("request", "alloc"), Ev("request", "write"), Ev("request", "free")>>
         \o (IF built THEN sendHeap ELSE <<>>)

\* The buffer of a request function: data = k_malloc(256); if (!data) return
\* -ENOMEM; the packet is built in data; every failure jumps to end; sendHeap
\* is what happens between the build and the end label; end: k_free(data).
RequestHeap(mem, built, sendHeap) ==
  IF ~mem THEN <<Ev("request", "nomem")>>
  ELSE IF ~built THEN <<Ev("request", "alloc"), Ev("request", "write"), Ev("request", "free")>>
  ELSE <<Ev("request", "alloc"), Ev("request", "write")>> \o sendHeap
         \o <<Ev("request", "free")>>

\* The common body of the two PUT functions: allocate, build, send, free, return r.
PutRequest(op, req, mem, ok) ==
  IF ~mem
    THEN /\ ret' = -ENOMEM
         /\ last' = [op |-> op, sendr |-> 0, badFd |-> FALSE]
         /\ heap' = RequestHeap(FALSE, FALSE, <<>>)
         /\ UNCHANGED <<sock, fdOpen, fdConn, errno, gen, sent, inbox, rcvd, phase>>
  ELSE IF EncodedLen(req) > MAX_COAP_MSG_LEN
    THEN /\ ret' = -EINVAL
         /\ gen' = GenAdvance(gen)
         /\ last' = [op |-> op, sendr |-> 0, badFd |-> FALSE]
         /\ heap' = RequestHeap(TRUE, FALSE, <<>>)
         /\ UNCHANGED <<sock, fdOpen, fdConn, errno, sent, inbox, rcvd, phase>>
  ELSE LET s == SendResult(req, ok)
       IN /\ ret' = s.r
          /\ errno' = s.errno
          /\ sent' = s.sent
          /\ gen' = GenAdvance(gen)
          /\ last' = [op |-> op, sendr |-> s.r, badFd |-> s.badFd]
          /\ heap' = RequestHeap(TRUE, TRUE, <<Ev("request", "send")>>)
          /\ UNCHANGED <<sock, fdOpen, fdConn, inbox, rcvd, phase>>

matter_on_off_toggle_put(mem, ok) == PutRequest("toggle_put", ToggleRequest(gen), mem, ok)

matter_on_off_ontime_put(mem, ok) == PutRequest("ontime_put", OnTimeRequest(gen), mem, ok)

\* The result matter_on_off_onoff_get returns: r = send(...); r = process_simple_coap_reply();
GetResult(sendr, pollr) == pollr

\* matter_on_off_onoff_get(): allocate, build, send, poll for the reply, free.
matter_on_off_onoff_get(mem, ok, mem2, rxFault) ==
  LET req == OnOffRequest(gen)
  IN IF ~mem
       THEN /\ ret' = -ENOMEM
            /\ last' = [op |-> "onoff_get", sendr |-> 0, badFd |-> FALSE]
            /\ heap' = RequestHeap(FALSE, FALSE, <<>>)
            /\ UNCHANGED <<sock, fdOpen, fdConn, errno, gen, sent, inbox, rcvd, phase>>
     ELSE IF EncodedLen(req) > MAX_COAP_MSG_LEN
       THEN /\ ret' = -EINVAL
            /\ gen' = GenAdvance(gen)
            /\ last' = [op |-> "onoff_get", sendr |-> 0, badFd |-> FALSE]
            /\ heap' = RequestHeap(TRUE, FALSE, <<>>)
            /\ UNCHANGED <<sock, fdOpen, fdConn, errno, sent, inbox, rcvd, phase>>
     ELSE LET s == SendResult(req, ok)
              p == process_simple_coap_reply(s.errno, mem2, rxFault)
          IN /\ ret' = GetResult(s.r, p.ret)
             /\ errno' = p.errno
             /\ sent' = s.sent
             /\ inbox' = p.inbox
             /\ rcvd' = p.rcvd
             /\ gen' = GenAdvance(gen)
             /\ last' = [op |-> "onoff_get", sendr |-> s.r, badFd |-> s.badFd \/ p.badFd]
             /\ heap' = RequestHeap(TRUE, TRUE, <<Ev("request", "send")>> \o p.heap)
             /\ UNCHANGED <<sock, fdOpen, fdConn, phase>>

\* close_socket handing on what close(sock) returned.
CloseReturnPropagated(r) == r

\* The value close_socket returns, given what close(sock) returned.
CloseReturn(r) == 0

\* close_socket(): (void)close(sock); return 0;
close_socket ==
  /\ IF sock \in fdOpen
       THEN /\ fdOpen' = fdOpen \ {sock}
            /\ fdConn' = fdConn \ {sock}
            /\ inbox' = <<>>
            /\ errno' = errno
            /\ ret' = CloseReturn(0)
       ELSE /\ errno' = EBADF
            /\ ret' = CloseReturn(-1)
            /\ UNCHANGED <<fdOpen, fdConn, inbox>>
  /\ last' = [op |-> "close", sendr |-> 0, badFd |-> sock \notin fdOpen]
  /\ phase' = "closed"
  /\ heap' = <<>>
  /\ UNCHANGED <<sock, gen, sent, rcvd>>

(* ------------------------------------------------------------------ *)
(* The peer: datagrams that may arrive on the connected client socket  *)
(* ------------------------------------------------------------------ *)
SentTokens == {sent[i].token : i \in 1..Len(sent)}

\* A well-formed message echoing the token of a request of this session (the
\* reply to it), bytes that do not parse, or a datagram of length zero.
Datagrams ==
  {[kind |-> "coap", token |-> t] : t \in SentTokens}
    \cup {[kind |-> "garbage", token |-> <<>>], [kind |-> "empty", token |-> <<>>]}

NetDeliver ==
  /\ sock \in fdConn
  /\ Len(inbox) < MaxInbox
  /\ \E d \in Datagrams : inbox' = Append(inbox, d)
  /\ UNCHANGED <<sock, fdOpen, fdConn, errno, gen, sent, rcvd, ret, last, phase, heap>>
  /\ UNCHANGED <<calls, buttonVars, serverVars, codec>>

(* ------------------------------------------------------------------ *)
(* The button: edge interrupt, debounce work item, event handler       *)
(* ------------------------------------------------------------------ *)
\* button_pressed(): k_work_reschedule(&cooldown_work, K_MSEC(1000)) on either edge.
button_pressed ==
  /\ pin' = ~pin
  /\ timer' = CooldownTicks
  /\ UNCHANGED <<pc, evt, queued, runs, button_cb, runLog>>
  /\ UNCHANGED <<clientVars, calls, serverVars, codec>>

\* Time passes; at expiry the delayable work is submitted to the system work queue.
Tick ==
  /\ timer > 0
  /\ timer' = timer - 1
  /\ queued' = (queued \/ timer = 1)
  /\ UNCHANGED <<pc, evt, pin, runs, button_cb, runLog>>
  /\ UNCHANGED <<clientVars, calls, serverVars, codec>>

\* A work queue that starts the work item again while its handler still runs.
WorkQueueReentrant == TRUE

\* The work queue thread can take the next item: cooldown_expired calls
\* button_cb(evt) as a plain function call, so the thread is back only when
\* button_event_handler has returned.
WorkQueueFree == pc = "idle"

\* cooldown_expired(): runs on the work queue thread, so never while a previous
\* invocation (which blocks that thread in k_msleep) has not returned.
cooldown_expired ==
  /\ queued
  /\ WorkQueueFree
  /\ runs < MaxRuns
  /\ queued' = FALSE
  /\ IF button_cb
       THEN /\ evt' = (IF pin THEN "PRESSED" ELSE "RELEASED")
            /\ pc' = "init"
            /\ runs' = runs + 1
            /\ runLog' = <<>>
       ELSE UNCHANGED <<evt, pc, runs, runLog>>
  /\ UNCHANGED <<pin, timer, button_cb>>
  /\ UNCHANGED <<clientVars, calls, serverVars, codec>>

\* A handler that goes on to the next call whatever the last one returned.
AfterCallIgnoringResult(r, next) == next

\* Where button_event_handler goes after a client call returned r.
AfterCall(r, next) == IF r < 0 THEN "end" ELSE next

HInit ==
  /\ pc = "init"
  /\ \E okSock \in BOOLEAN, okConn \in BOOLEAN : init_coap_client(okSock, okConn)
  /\ pc' = AfterCall(ret', "toggle")
  /\ runLog' = Append(runLog, [op |-> "init", ret |-> ret'])
  /\ UNCHANGED <<evt, pin, timer, queued, runs, button_cb, calls, serverVars, codec>>

HToggle ==
  /\ pc = "toggle"
  /\ \E mem \in BOOLEAN, ok \in BOOLEAN : matter_on_off_toggle_put(mem, ok)
  /\ pc' = AfterCall(ret', "sleep1")
  /\ runLog' = Append(runLog, [op |-> "toggle_put", ret |-> ret'])
  /\ UNCHANGED <<evt, pin, timer, queued, runs, button_cb, calls, serverVars, codec>>

\* k_msleep(10000) returns.
HWake1 ==
  /\ pc = "sleep1"
  /\ pc' = "ontime"
  /\ UNCHANGED <<evt, pin, timer, queued, runs, button_cb, runLog, clientVars, calls, serverVars, codec>>

HOnTime ==
  /\ pc = "ontime"
  /\ \E mem \in BOOLEAN, ok \in BOOLEAN : matter_on_off_ontime_put(mem, ok)
  /\ pc' = AfterCall(ret', "sleep2")
  /\ runLog' = Append(runLog, [op |-> "ontime_put", ret |-> ret'])
  /\ UNCHANGED <<evt, pin, timer, queued, runs, button_cb, calls, serverVars, codec>>

HWake2 ==
  /\ pc = "sleep2"
  /\ pc' = "get"
  /\ UNCHANGED <<evt, pin, timer, queued, runs, button_cb, runLog, clientVars, calls, serverVars, codec>>

HGet ==
  /\ pc = "get"
  /\ \E mem \in BOOLEAN, ok \in BOOLEAN, mem2 \in BOOLEAN, rxFault \in BOOLEAN :
       matter_on_off_onoff_get(mem, ok, mem2, rxFault)
  /\ pc' = AfterCall(ret', "end")
  /\ runLog' = Append(runLog, [op |-> "onoff_get", ret |-> ret'])
  /\ UNCHANGED <<evt, pin, timer, queued, runs, button_cb, calls, serverVars, codec>>

HEnd ==
  /\ pc = "end"
  /\ close_socket
  /\ pc' = "idle"
  /\ runLog' = Append(runLog, [op |-> "close", ret |-> ret'])
  /\ UNCHANGED <<evt, pin, timer, queued, runs, button_cb, calls, serverVars, codec>>

\* One step of button_event_handler.
HandlerStep == HInit \/ HToggle \/ HWake1 \/ HOnTime \/ HWake2 \/ HGet \/ HEnd

(* ------------------------------------------------------------------ *)
(* Initial state and the program's specification                       *)
(* ------------------------------------------------------------------ *)
NoDispatch == [status |-> "None"]

\* No message is in the codec.
NoCodec == [stage |-> "none"]

\* The program after main() has set up the LEDs, the button and the service.
ProgramInit ==
  /\ sock = 0
  /\ fdOpen = {}
  /\ fdConn = {}
  /\ errno = 0
  /\ gen \in [tok : {0}, id : IdSeeds]
  /\ sent = <<>>
  /\ inbox = <<>>
  /\ rcvd = <<>>
  /\ ret = 0
  /\ last = [op |-> "none", sendr |-> 0, badFd |-> FALSE]
  /\ phase = "fresh"
  /\ heap = <<>>
  /\ calls = 0
  /\ pc = "idle"
  /\ evt = "RELEASED"
  /\ pin = FALSE
  /\ timer = 0
  /\ queued = FALSE
  /\ runs = 0
  /\ button_cb = TRUE
  /\ runLog = <<>>
  /\ led = TRUE
  /\ srv = NoDispatch
  /\ faulted = FALSE

Init ==
  /\ ProgramInit
  /\ codec = NoCodec

Next ==
  \/ button_pressed
  \/ Tick
  \/ cooldown_expired
  \/ HInit
  \/ HToggle
  \/ HWake1
  \/ HOnTime
  \/ HWake2
  \/ HGet
  \/ HEnd
  \/ NetDeliver

Spec == Init /\ [][Next]_vars


(* ------------------------------------------------------------------ *)
(* The server path: resources, handlers, dispatch                      *)
(* ------------------------------------------------------------------ *)
on_off_object_state_path == <<Seg42769, <<"0">>, <<"1">> >>
on_off_object_on_path == <<Seg42769, <<"0">>, <<"2">> >>
on_off_object_off_path == <<Seg42769, <<"0">>, <<"3">> >>
on_off_object_switch_path == <<Seg42769, <<"0">>, <<"4">> >>

\* COAP_RESOURCE_DEFINE: a method without a handler is a NULL pointer.
on_off_object_state_resource ==
  [path |-> on_off_object_state_path,
   get |-> "on_off_object_state_get", put |-> "on_off_object_state_put"]

\* The on resource with the state resource's GET handler copied into it.
on_off_object_on_resource_with_get ==
  [path |-> on_off_object_on_path, get |-> "on_off_object_state_get",
   put |-> "on_off_object_on_put"]

on_off_object_on_resource ==
  [path |-> on_off_object_on_path, get |-> "NULL", put |-> "on_off_object_on_put"]

on_off_object_off_resource ==
  [path |-> on_off_object_off_path, get |-> "NULL", put |-> "on_off_object_off_put"]

on_off_object_switch_resource ==
  [path |-> on_off_object_switch_path, get |-> "NULL", put |-> "on_off_object_switch_put"]

\* The resources of service coap_server.
Resources ==
  {on_off_object_state_resource, on_off_object_on_resource,
   on_off_object_off_resource, on_off_object_switch_resource}

\* Bytes that may lie in memory the program reads without having written it.
JunkBytes == {"NUL", "x"}

NoResponse == [type |-> "none"]

\* A response type that ignores the request's type.
ResponseTypeAlwaysAck(reqType) == "ACK"

\* type = (type == COAP_TYPE_CON) ? COAP_TYPE_ACK : COAP_TYPE_NON_CON
ResponseType(reqType) == IF reqType = "CON" THEN "ACK" ELSE "NON"

\* The payload of the GET response: sizeof(on_msg) bytes starting at the
\* two-byte literal "1" or "0"; the bytes after the literal are whatever follows it.
StatePayload(level, junk) ==
  [i \in 1..PointerSize |->
     IF i = 1 THEN (IF level THEN "1" ELSE "0")
     ELSE IF i = 2 THEN "NUL"
     ELSE junk[i - 2]]

\* The response on_off_object_state_get builds for request req.
StateGetResponse(req, level, junk) ==
  [type |-> ResponseType(req.type), token |-> req.token, code |-> COAP_RESPONSE_CODE_CONTENT,
   id |-> req.id,
   options |-> <<[num |-> COAP_OPTION_CONTENT_FORMAT,
                  val |-> COAP_CONTENT_FORMAT_TEXT_PLAIN]>>,
   marker |-> TRUE, payload |-> StatePayload(level, junk),
   appended |-> <<OptionPart([num |-> COAP_OPTION_CONTENT_FORMAT,
                              val |-> COAP_CONTENT_FORMAT_TEXT_PLAIN]),
                  MarkerPart, PayloadPart(StatePayload(level, junk))>>]

\* Handlers: the set of outcomes a call may have, given the request and the LED.
on_off_object_state_get(req, level) ==
  {[hret |-> r, led |-> level, resp |-> StateGetResponse(req, level, junk), fault |-> FALSE] :
     r \in {0, -ENOMEM}, junk \in [1..(PointerSize - 2) -> JunkBytes]}

\* The byte strncmp sees at converted_data[0] after strcpy(converted_data, data).
\* With no payload data is NULL and the byte is whatever lies at address 0.
FirstBytes(payload) ==
  IF payload = <<>> THEN {"0", "1"} \cup JunkBytes ELSE {payload[1]}

\* The comparison of on_off_object_state_put: strncmp(converted_data, "0", 1) == 0
IsOff(payload, c) == c = "0"

\* strncmp(converted_data, "1", 1) == 0
IsOn(payload, c) == c = "1"

\* strcpy writes at least one byte past char converted_data[data_len]; the
\* overflow either goes unnoticed or corrupts the stack and the node faults.
on_off_object_state_put(req, level) ==
  {IF IsOff(req.payload, c)
     THEN [hret |-> COAP_RESPONSE_CODE_CHANGED, led |-> FALSE, resp |-> NoResponse, fault |-> FALSE]
   ELSE IF IsOn(req.payload, c)
     THEN [hret |-> COAP_RESPONSE_CODE_CHANGED, led |-> TRUE, resp |-> NoResponse, fault |-> FALSE]
   ELSE [hret |-> COAP_RESPONSE_CODE_BAD_REQUEST, led |-> level, resp |-> NoResponse,
         fault |-> FALSE] : c \in FirstBytes(req.payload)}
    \cup {[hret |-> 0, led |-> level, resp |-> NoResponse, fault |-> TRUE]}

on_off_object_on_put(req, level) ==
  {[hret |-> COAP_RESPONSE_CODE_CHANGED, led |-> TRUE, resp |-> NoResponse, fault |-> FALSE]}

on_off_object_off_put(req, level) ==
  {[hret |-> COAP_RESPONSE_CODE_CHANGED, led |-> FALSE, resp |-> NoResponse, fault |-> FALSE]}

\* A switch handler that sets the pin instead of toggling it.
on_off_object_switch_put_setting(req, level) ==
  {[hret |-> COAP_RESPONSE_CODE_CHANGED, led |-> TRUE, resp |-> NoResponse, fault |-> FALSE]}

on_off_object_switch_put(req, level) ==
  {[hret |-> COAP_RESPONSE_CODE_CHANGED, led |-> ~level, resp |-> NoResponse, fault |-> FALSE]}

CallHandler(h, req, level) ==
  CASE h = "on_off_object_state_get" -> on_off_object_state_get(req, level)
    [] h = "on_off_object_state_put" -> on_off_object_state_put(req, level)
    [] h = "on_off_object_on_put" -> on_off_object_on_put(req, level)
    [] h = "on_off_object_off_put" -> on_off_object_off_put(req, level)
    [] h = "on_off_object_switch_put" -> on_off_object_switch_put(req, level)

\* The URI path a request carries: the values of its URI-Path options, in order.
UriPath(req) ==
  LET idx == {i \in 1..Len(req.options) : req.options[i].num = COAP_OPTION_URI_PATH}
      RECURSIVE Collect(_)
      Collect(i) ==
        IF i > Len(req.options) THEN <<>>
        ELSE (IF i \in idx THEN <<req.options[i].val>> ELSE <<>>) \o Collect(i + 1)
  IN Collect(1)

\* The handler a resource registers for a method; POST and DELETE are never set.
MethodHandler(res, code) ==
  IF code = "GET" THEN res.get ELSE IF code = "PUT" THEN res.put ELSE "NULL"

\* Dispatch of one request by the CoAP service: exact path, then method.
Dispatch(req, level) ==
  LET match == {res \in Resources : res.path = UriPath(req)}
  IN IF match = {}
       THEN {[status |-> "NotFound", invoked |-> {}, hret |-> 0, led |-> level,
              resp |-> NoResponse, fault |-> FALSE]}
     ELSE LET res == CHOOSE r \in match : TRUE
              h == MethodHandler(res, req.code)
          IN IF h = "NULL"
               THEN {[status |-> "MethodNotAllowed", invoked |-> {}, hret |-> 0, led |-> level,
                      resp |-> NoResponse, fault |-> FALSE]}
             ELSE {[status |-> (IF o.fault THEN "Fault" ELSE "Handled"), invoked |-> {h},
                    hret |-> o.hret, led |-> o.led, resp |-> o.resp, fault |-> o.fault] :
                      o \in CallHandler(h, req, level)}

\* The reply the service sends by itself: a message without body carrying code,
\* echoing the request's token and message-id.
ServiceReply(req, code) ==
  [type |-> ResponseType(req.type), token |-> req.token, code |-> code, id |-> req.id,
   options |-> <<>>, marker |-> FALSE, payload |-> <<>>]

\* What goes back to the requester for one dispatch outcome o: the response the
\* handler handed to coap_resource_send, if that returned 0, and the service's
\* own reply for a status code the handler (or the dispatch) returned.
Replies(req, o) ==
  IF o.fault THEN <<>>
  ELSE IF o.status \in {"NotFound", "MethodNotAllowed"} THEN <<ServiceReply(req, o.status)>>
  ELSE (IF o.resp # NoResponse /\ o.hret = 0 THEN <<o.resp>> ELSE <<>>)
         \o (IF o.hret > 0 THEN <<ServiceReply(req, o.hret)>> ELSE <<>>)

\* Inbound requests the peer may send to the server.
RECURSIVE SeqsUpTo(_, _)
SeqsUpTo(S, n) ==
  IF n = 0 THEN {<<>>}
  ELSE LET shorter == SeqsUpTo(S, n - 1)
       IN shorter \cup {Append(q, x) : q \in shorter, x \in S}

ServerPaths ==
  {on_off_object_state_path, on_off_object_on_path, on_off_object_off_path,
   on_off_object_switch_path, <<Seg42769, <<"0">>, <<"9", "9">> >>, <<Seg42769, <<"0">> >>}

ServerRequests ==
  {[type |-> ty, token |-> tk, code |-> c, id |-> i, options |-> UriPathOptions(p),
    marker |-> (pl # <<>>), payload |-> pl] :
     ty \in {"CON", "NON"}, tk \in SeqsUpTo({1, 2}, MaxTkl),
     c \in {"GET", "PUT", "POST", "DELETE"}, i \in {0, IdModulus - 1},
     p \in ServerPaths, pl \in SeqsUpTo({"0", "1", "2"}, MaxPayload)}

\* The service takes one request off its socket and dispatches it.
ServerRequest ==
  /\ ~faulted
  /\ srv = NoDispatch
  /\ \E req \in ServerRequests :
       \E o \in Dispatch(req, led) :
         /\ led' = o.led
         /\ faulted' = o.fault
         /\ srv' = [status |-> o.status, req |-> req, ledBefore |-> led,
                    invoked |-> o.invoked, hret |-> o.hret, resp |-> o.resp,
                    replies |-> Replies(req, o)]
  /\ UNCHANGED <<clientVars, calls, buttonVars, codec>>

\* The service is done with the request and waits for the next datagram.
ServerDone ==
  /\ ~faulted
  /\ srv # NoDispatch
  /\ srv' = NoDispatch
  /\ UNCHANGED <<led, faulted, clientVars, calls, buttonVars, codec>>

ServerNext == ServerRequest \/ ServerDone

ServerSpec == Init /\ [][ServerNext]_vars


(* ------------------------------------------------------------------ *)
(* The node as a whole: the work queue thread running the button       *)
(* handler and the service thread running the resource handlers        *)
(* ------------------------------------------------------------------ *)
\* Requests that reach a handler, one per handler and payload, with the
\* header fields the handlers do not look at fixed.
SysRequests ==
  {req \in ServerRequests :
     /\ req.type = "CON"
     /\ req.token = <<>>
     /\ req.id = 0
     /\ req.payload = <<"1">>
     /\ \E res \in Resources :
          res.path = UriPath(req) /\ MethodHandler(res, req.code) # "NULL"}

\* The service thread takes a request off its socket and enters the handler.
HandlerEnter ==
  /\ ~faulted
  /\ srv = NoDispatch
  /\ \E req \in SysRequests :
       \E o \in Dispatch(req, led) :
         srv' = [status |-> "Running", req |-> req, invoked |-> o.invoked]
  /\ UNCHANGED <<led, faulted, clientVars, calls, buttonVars, codec>>

\* The handler reads or writes led_user and returns.
HandlerReturn ==
  /\ srv.status = "Running"
  /\ \E o \in Dispatch(srv.req, led) :
       /\ led' = o.led
       /\ faulted' = o.fault
       /\ srv' = [status |-> o.status, req |-> srv.req, ledBefore |-> led,
                  invoked |-> o.invoked, hret |-> o.hret, resp |-> o.resp,
                  replies |-> Replies(srv.req, o)]
  /\ UNCHANGED <<clientVars, calls, buttonVars, codec>>

\* The functions a thread is in that use led_user: a handler from entry to return.
ServerLedUse == IF srv.status = "Running" THEN srv.invoked ELSE {}

\* button_event_handler touching the LED while it waits between two requests.
ButtonHandlerLedUseWhileWaiting(p) ==
  IF p \in {"sleep1", "sleep2"} THEN {"button_event_handler"} ELSE {}

\* The uses of led_user in button_event_handler at position p: there are none.
ButtonHandlerLedUse(p) == {}

SysNext ==
  \/ button_pressed
  \/ Tick
  \/ cooldown_expired
  \/ HInit
  \/ HToggle
  \/ HWake1
  \/ HOnTime
  \/ HWake2
  \/ HGet
  \/ HEnd
  \/ HandlerEnter
  \/ HandlerReturn
  \/ ServerDone

SysSpec == Init /\ [][SysNext]_vars

(* ------------------------------------------------------------------ *)
(* The client functions called in any order by a user of coap_client.h *)
(* ------------------------------------------------------------------ *)
ApiInit ==
  /\ calls < MaxCalls
  /\ calls' = calls + 1
  /\ \E okSock \in BOOLEAN, okConn \in BOOLEAN : init_coap_client(okSock, okConn)
  /\ UNCHANGED <<buttonVars, serverVars, codec>>

ApiToggle ==
  /\ calls < MaxCalls
  /\ calls' = calls + 1
  /\ \E mem \in BOOLEAN, ok \in BOOLEAN : matter_on_off_toggle_put(mem, ok)
  /\ UNCHANGED <<buttonVars, serverVars, codec>>

ApiOnTime ==
  /\ calls < MaxCalls
  /\ calls' = calls + 1
  /\ \E mem \in BOOLEAN, ok \in BOOLEAN : matter_on_off_ontime_put(mem, ok)
  /\ UNCHANGED <<buttonVars, serverVars, codec>>

ApiGet ==
  /\ calls < MaxCalls
  /\ calls' = calls + 1
  /\ \E mem \in BOOLEAN, ok \in BOOLEAN, mem2 \in BOOLEAN, rxFault \in BOOLEAN :
       matter_on_off_onoff_get(mem, ok, mem2, rxFault)
  /\ UNCHANGED <<buttonVars, serverVars, codec>>

ApiClose ==
  /\ calls < MaxCalls
  /\ calls' = calls + 1
  /\ close_socket
  /\ UNCHANGED <<buttonVars, serverVars, codec>>

ApiNext ==
  \/ ApiInit
  \/ ApiToggle
  \/ ApiOnTime
  \/ ApiGet
  \/ ApiClose
  \/ NetDeliver

ApiSpec == Init /\ [][ApiNext]_vars

(* ------------------------------------------------------------------ *)
(* The message codec (wire format of a CoAP message)                   *)
(* ------------------------------------------------------------------ *)
\* The byte a character of a path segment or payload is on the wire.
Ord(c) ==
  CASE c = "0" -> 48 [] c = "1" -> 49 [] c = "2" -> 50 [] c = "3" -> 51
    [] c = "4" -> 52 [] c = "5" -> 53 [] c = "6" -> 54 [] c = "7" -> 55
    [] c = "8" -> 56 [] c = "9" -> 57 [] c = "x" -> 120 [] c = "NUL" -> 0

OrdSeq(cs) == [i \in 1..Len(cs) |-> Ord(cs[i])]

TypeNum(t) == CASE t = "CON" -> 0 [] t = "NON" -> 1 [] t = "ACK" -> 2 [] t = "RST" -> 3

\* Method codes as on the wire; a response code is its number already.
CodeNum(c) ==
  CASE c = "GET" -> 1 [] c = "POST" -> 2 [] c = "PUT" -> 3 [] c = "DELETE" -> 4
    [] OTHER -> c

\* The value bytes of an integer option: as few bytes as hold n, none for 0.
IntBytes(n) ==
  IF n = 0 THEN <<>> ELSE IF n < 256 THEN <<n>> ELSE <<n \div 256, n % 256>>

\* A message of the program in the terms of the wire: numbers and bytes.
Wire(m) ==
  [ver |-> 1, type |-> TypeNum(m.type), token |-> m.token, code |-> CodeNum(m.code),
   id |-> m.id,
   options |-> [i \in 1..Len(m.options) |->
                  [num |-> m.options[i].num,
                   val |-> IF m.options[i].num = COAP_OPTION_CONTENT_FORMAT
                             THEN IntBytes(m.options[i].val)
                             ELSE OrdSeq(m.options[i].val)]],
   payload |-> OrdSeq(m.payload)]

\* A codec result that is an error: no bytes, no message.
CodecError(e) == [error |-> e, bytes |-> <<>>, m |-> <<>>]

\* The nibble that stands for a delta or length v, and its extension bytes.
Nibble(v) == IF v < 13 THEN v ELSE IF v < 269 THEN 13 ELSE 14

Extension(v) ==
  IF v < 13 THEN <<>>
  ELSE IF v < 269 THEN <<v - 13>>
  ELSE <<(v - 269) \div 256, (v - 269) % 256>>

RECURSIVE EncodeOptions(_, _)
EncodeOptions(opts, prev) ==
  IF opts = <<>> THEN <<>>
  ELSE LET o == Head(opts)
           delta == o.num - prev
       IN <<16 * Nibble(delta) + Nibble(Len(o.val))>>
            \o Extension(delta) \o Extension(Len(o.val)) \o o.val
            \o EncodeOptions(Tail(opts), o.num)

Ascending(opts) == \A i \in 1..(Len(opts) - 1) : opts[i].num <= opts[i + 1].num

\* Encode: header, token, options as deltas, then the marker and the payload
\* if there is a payload.
Encode(w) ==
  IF Len(w.token) > COAP_TOKEN_MAX_LEN THEN CodecError("TokenTooLong")
  ELSE IF ~Ascending(w.options) THEN CodecError("OptionOrder")
  ELSE LET bytes ==
             <<64 * w.ver + 16 * w.type + Len(w.token), w.code,
               w.id \div 256, w.id % 256>>
               \o w.token \o EncodeOptions(w.options, 0)
               \o (IF w.payload = <<>> THEN <<>> ELSE <<255>> \o w.payload)
       IN IF Len(bytes) > MAX_COAP_MSG_LEN THEN CodecError("BufferTooSmall")
          ELSE [error |-> "", bytes |-> bytes, m |-> <<>>]

\* The value a nibble and the bytes after it stand for, and how many bytes it took.
Extended(nib, b) ==
  IF nib < 13 THEN [ok |-> TRUE, v |-> nib, used |-> 0]
  ELSE IF nib = 13
    THEN IF Len(b) < 1 THEN [ok |-> FALSE, v |-> 0, used |-> 0]
         ELSE [ok |-> TRUE, v |-> b[1] + 13, used |-> 1]
  ELSE IF nib = 14
    THEN IF Len(b) < 2 THEN [ok |-> FALSE, v |-> 0, used |-> 0]
         ELSE [ok |-> TRUE, v |-> 256 * b[1] + b[2] + 269, used |-> 2]
  ELSE [ok |-> FALSE, v |-> 0, used |-> 0]

Drop(b, n) == SubSeq(b, n + 1, Len(b))

\* Options one after the other, the option number as the running sum of the
\* deltas, up to the end of the bytes or the payload marker.
RECURSIVE DecodeOptions(_, _, _)
DecodeOptions(b, prev, acc) ==
  IF b = <<>> THEN [error |-> "", options |-> acc, payload |-> <<>>]
  ELSE IF b[1] = 255
    THEN IF Len(b) = 1
           THEN [error |-> "EmptyPayloadAfterMarker", options |-> acc, payload |-> <<>>]
           ELSE [error |-> "", options |-> acc, payload |-> Tail(b)]
  ELSE LET d == Extended(b[1] \div 16, Tail(b))
           l == Extended(b[1] % 16, Drop(Tail(b), d.used))
           rest == Drop(Tail(b), d.used + l.used)
       IN IF ~d.ok \/ ~l.ok \/ Len(rest) < l.v
            THEN [error |-> "InvalidOption", options |-> acc, payload |-> <<>>]
            ELSE DecodeOptions(Drop(rest, l.v), prev + d.v,
                               Append(acc, [num |-> prev + d.v, val |-> SubSeq(rest, 1, l.v)]))

Decode(b) ==
  IF Len(b) < 4 THEN CodecError("Truncated")
  ELSE IF b[1] \div 64 # 1 THEN CodecError("UnsupportedVersion")
  ELSE IF (b[1] % 16) > COAP_TOKEN_MAX_LEN \/ 4 + (b[1] % 16) > Len(b)
    THEN CodecError("Truncated")
  ELSE LET tkl == b[1] % 16
           r == DecodeOptions(Drop(b, 4 + tkl), 0, <<>>)
       IN IF r.error # "" THEN CodecError(r.error)
          ELSE [error |-> "", bytes |-> <<>>,
                m |-> [ver |-> 1, type |-> (b[1] \div 16) % 4,
                       token |-> SubSeq(b, 5, 4 + tkl),
                       code |-> b[2], id |-> 256 * b[3] + b[4],
                       options |-> r.options, payload |-> r.payload]]

\* Messages handed to the codec: every type, tokens of length 0, 1 and 8, ids
\* at both ends of 16 bits, option lists with plain and extended deltas and
\* lengths, payloads that are empty, begin with the marker byte, or overflow
\* the buffer; and the GET request of matter_on_off_onoff_get itself.
CodecTokens == {<<>>, <<171>>, Tok8(255)}

CodecOptionLists ==
  {<<>>,
   Wire(AppendPath(NewRequest("GET", [tok |-> 0, id |-> 0]), on_off_onoff_path)).options,
   <<[num |-> COAP_OPTION_CONTENT_FORMAT, val |-> <<>>]>>,
   <<[num |-> COAP_OPTION_URI_PATH, val |-> [i \in 1..13 |-> 97]],
     [num |-> 60, val |-> <<1, 0>>], [num |-> 2049, val |-> <<7>>]>>,
   <<[num |-> 300, val |-> <<255>>]>>}

CodecPayloads ==
  SeqsUpTo({0, 255}, MaxPayload) \cup {[i \in 1..MAX_COAP_MSG_LEN |-> 49]}

CodecMessages ==
  {[ver |-> 1, type |-> ty, token |-> tk, code |-> c, id |-> i, options |-> os, payload |-> pl] :
     ty \in 0..3, tk \in CodecTokens, c \in {1, 3, COAP_RESPONSE_CODE_CONTENT},
     i \in {0, 4660, IdModulus - 1}, os \in CodecOptionLists, pl \in CodecPayloads}
    \cup {Wire(OnOffRequest(g)) : g \in [tok : {0}, id : IdSeeds]}

CodecInit ==
  /\ ProgramInit
  /\ \E m \in CodecMessages : codec = [stage |-> "message", m |-> m]

\* The sender encodes the message into its buffer.
CodecEncode ==
  /\ codec.stage = "message"
  /\ codec' = [stage |-> "bytes", m |-> codec.m, enc |-> Encode(codec.m)]
  /\ UNCHANGED <<clientVars, calls, buttonVars, serverVars>>

\* The receiver decodes the bytes the sender produced.
CodecDecode ==
  /\ codec.stage = "bytes"
  /\ codec.enc.error = ""
  /\ codec' = [stage |-> "decoded", m |-> codec.m, enc |-> codec.enc,
               out |-> Decode(codec.enc.bytes)]
  /\ UNCHANGED <<clientVars, calls, buttonVars, serverVars>>

CodecNext == CodecEncode \/ CodecDecode

CodecSpec == CodecInit /\ [][CodecNext]_vars

(* ================================================================== *)
(* Properties                                                          *)
(* ================================================================== *)
RequestOps == {"toggle_put", "ontime_put", "onoff_get"}

\* Tokens of the datagrams the client took as a reply (parsed without error).
RepliedTokens == {rcvd[i].d.token : i \in {j \in 1..Len(rcvd) : rcvd[j].ret = 0}}

\* Requests of this session that went out and whose reply the client has not read.
Outstanding == {i \in 1..Len(sent) : sent[i].token \notin RepliedTokens}

\* C1: at most one client request is outstanding at any time over the
\* button-triggered sequence: no request is transmitted while an earlier one
\* still awaits its reply.
C1_SingleOutstanding == Cardinality(Outstanding) <= 1

\* C2: while the GET awaits its reply, a datagram is taken as the reply only if
\* its token equals the token of that GET; a datagram with another token is
\* discarded.
C2_ReplyTokenMatches ==
  \A i \in 1..Len(rcvd), j \in 1..Len(sent) :
    (rcvd[i].ret = 0 /\ sent[j].code = "GET") => rcvd[i].d.token = sent[j].token

IsStatePut == srv # NoDispatch /\ UriPath(srv.req) = on_off_object_state_path /\ srv.req.code = "PUT"

\* C3: PUT on 42769/0/1 accepts exactly the payloads "0" (Changed, output off)
\* and "1" (Changed, output on); every other payload returns BadRequest and
\* leaves the output unchanged; the handler never faults.
C3_StatePutValidates ==
  IsStatePut =>
    /\ srv.status = "Handled"
    /\ srv.req.payload = <<"0">> => (srv.hret = COAP_RESPONSE_CODE_CHANGED /\ led = FALSE)
    /\ srv.req.payload = <<"1">> => (srv.hret = COAP_RESPONSE_CODE_CHANGED /\ led = TRUE)
    /\ srv.req.payload \notin {<<"0">>, <<"1">>} =>
         (srv.hret = COAP_RESPONSE_CODE_BAD_REQUEST /\ led = srv.ledBefore)

\* The routes the source registers, written out: path suffix and method to handler.
ExpectedHandler(path, code) ==
  IF path = <<Seg42769, <<"0">>, <<"1">> >> /\ code = "GET" THEN "on_off_object_state_get"
  ELSE IF path = <<Seg42769, <<"0">>, <<"1">> >> /\ code = "PUT" THEN "on_off_object_state_put"
  ELSE IF path = <<Seg42769, <<"0">>, <<"2">> >> /\ code = "PUT" THEN "on_off_object_on_put"
  ELSE IF path = <<Seg42769, <<"0">>, <<"3">> >> /\ code = "PUT" THEN "on_off_object_off_put"
  ELSE IF path = <<Seg42769, <<"0">>, <<"4">> >> /\ code = "PUT" THEN "on_off_object_switch_put"
  ELSE "NULL"

RegisteredPath(path) ==
  \E r \in {"1", "2", "3", "4"} : path = <<Seg42769, <<"0">>, <<r>> >>

\* C4: dispatch selects by exact path and method: a registered path and method
\* invokes that handler and no other; an unregistered path yields NotFound and a
\* registered path with a method without handler yields MethodNotAllowed, and
\* neither invokes a handler.
C4_DispatchExact ==
  srv # NoDispatch =>
    LET path == UriPath(srv.req)
        h == ExpectedHandler(path, srv.req.code)
    IN /\ h # "NULL" => (srv.invoked = {h} /\ srv.status \in {"Handled", "Fault"})
       /\ ~RegisteredPath(path) => (srv.status = "NotFound" /\ srv.invoked = {})
       /\ (RegisteredPath(path) /\ h = "NULL") =>
            (srv.status = "MethodNotAllowed" /\ srv.invoked = {})

C4_Witness ==
  /\ srv # NoDispatch
  /\ srv.status = "MethodNotAllowed"
  /\ srv.req.code = "GET"
  /\ UriPath(srv.req) = on_off_object_switch_path

\* C5: after close and until the next init, every request function reports the
\* closed connection and does not hand the released descriptor to the transport
\* (a call that fails earlier, allocating its buffer, is not held against this).
C5_ClosedReported ==
  (phase = "closed" /\ last.op \in RequestOps /\ ret # -ENOMEM) =>
    (ret = -EBADF /\ ~last.badFd)

\* C6: close is idempotent: a close that directly follows a close leaves the
\* client state, the session records, the descriptor and the return value as
\* the first close left them.
C6_CloseIdempotent ==
  [][(last.op = "close" /\ last'.op = "close" /\ calls' = calls + 1) =>
       /\ sock' = sock
       /\ fdOpen' = fdOpen
       /\ fdConn' = fdConn
       /\ phase' = phase
       /\ sent' = sent
       /\ rcvd' = rcvd
       /\ inbox' = inbox
       /\ ret' = ret]_vars

\* A second close of a session that had sent a request: the descriptor is already released.
C6_Witness ==
  /\ last.op = "close"
  /\ last.badFd
  /\ sent # <<>>
  /\ ret = 0

\* C7: a response the server builds carries the token and message-id of the
\* request it answers; its type is ACK for a CON request and NON otherwise.
C7_ResponseEchoes ==
  (srv # NoDispatch /\ srv.resp # NoResponse) =>
    /\ srv.resp.token = srv.req.token
    /\ Len(srv.resp.token) = Len(srv.req.token)
    /\ srv.resp.id = srv.req.id
    /\ srv.resp.type = (IF srv.req.type = "CON" THEN "ACK" ELSE "NON")

C7_Witness ==
  /\ srv # NoDispatch
  /\ srv.resp # NoResponse
  /\ srv.req.type = "NON"
  /\ Len(srv.req.token) = MaxTkl
  /\ srv.req.id = IdModulus - 1

\* C8: a failed transport send inside a request function makes that function
\* return a negative result, whatever the receive poll returns afterwards.
C8_SendFaultSurfaced ==
  (last.op \in RequestOps /\ last.sendr < 0) => ret < 0

\* C9: a datagram that fails to decode while the GET that was sent awaits its
\* reply counts as "no usable reply yet": the GET does not return an error for it.
C9_DecodeFailureIsNoReply ==
  (/\ last.op = "onoff_get"
   /\ last.sendr > 0
   /\ rcvd # <<>>
   /\ rcvd[Len(rcvd)].d.kind = "garbage") => ret >= 0

\* C10: within one session no two transmitted requests carry the same token or
\* the same message-id, and message-ids of successive requests increase by one
\* modulo 2^16.
C10_FreshTokenAndId ==
  /\ \A i, j \in 1..Len(sent) :
       i # j => (sent[i].token # sent[j].token /\ sent[i].id # sent[j].id)
  /\ \A i \in 1..(Len(sent) - 1) : sent[i + 1].id = (sent[i].id + 1) % IdModulus

\* Three requests of one session, the message-id counter wrapping between them.
C10_Witness ==
  /\ Len(sent) = 3
  /\ sent[1].id = IdModulus - 1
  /\ sent[2].id = 0

\* The URI path of a decoded message: the values of its URI-Path options, in order.
WirePath(w) ==
  LET RECURSIVE Collect(_)
      Collect(i) ==
        IF i > Len(w.options) THEN <<>>
        ELSE (IF w.options[i].num = COAP_OPTION_URI_PATH THEN <<w.options[i].val>> ELSE <<>>)
               \o Collect(i + 1)
  IN Collect(1)

\* C11: encoding then decoding is the identity on valid messages (token of at
\* most 8 bytes, options ascending, the whole within 256 bytes): the decoder
\* returns the message the encoder was given; and the GET request the client
\* builds decodes to a CON GET with the token and message-id it was given, the
\* path segments "42770", "0", "5" in this order and no payload.
C11_RoundTrip ==
  codec.stage = "decoded" =>
    /\ codec.out.error = ""
    /\ codec.out.m = codec.m
    /\ \A g \in [tok : {0}, id : IdSeeds] :
         codec.m = Wire(OnOffRequest(g)) =>
           /\ codec.out.m.type = 0
           /\ codec.out.m.code = 1
           /\ codec.out.m.token = coap_next_token(g)
           /\ codec.out.m.id = coap_next_id(g)
           /\ WirePath(codec.out.m) = <<OrdSeq(Seg42770), <<48>>, <<53>> >>
           /\ codec.out.m.payload = <<>>

\* The client's GET request has gone through the codec.
C11_Witness ==
  /\ codec.stage = "decoded"
  /\ codec.m = Wire(OnOffRequest([tok |-> 0, id |-> IdModulus - 1]))
  /\ Len(codec.enc.bytes) = 4 + COAP_TOKEN_MAX_LEN + 6 + 2 + 2

HandlerStatusCode == IF srv.resp # NoResponse THEN srv.resp.code ELSE srv.hret

\* C13: every request dispatched to a registered handler is answered: exactly
\* one response goes back to the requester and it carries the handler's
\* status code; this holds for each PUT the state, on, off and switch handlers
\* take, not only for the GET (a response the transport refused to send is not
\* held against this).
C13_EveryRequestAnswered ==
  (srv # NoDispatch /\ srv.invoked # {} /\ srv.hret >= 0) =>
    /\ Len(srv.replies) = 1
    /\ srv.replies[1].code = HandlerStatusCode
    /\ srv.replies[1].token = srv.req.token

\* The client calls of a complete run, in the order of button_event_handler.
RunOrder == <<"init", "toggle_put", "ontime_put", "onoff_get">>

\* C14: one run of the button handler calls init, PUT toggle, PUT on-time and
\* GET in this order, makes no further request after the first negative result,
\* and ends, on every path, after exactly one close that follows the last call
\* made; when the run has ended no descriptor is open. While the run has not
\* ended its next step can always be taken.
C14_RunSequence ==
  LET n == Len(runLog)
  IN /\ \A i \in 1..n : runLog[i].op = "close" => i = n
     /\ \A i \in 1..n :
          runLog[i].op # "close" => (i <= Len(RunOrder) /\ runLog[i].op = RunOrder[i])
     /\ \A i \in 1..(n - 1) : runLog[i].ret < 0 => runLog[i + 1].op = "close"
     /\ \A i \in 1..(n - 1) :
          runLog[i + 1].op = "close" => (runLog[i].ret < 0 \/ i = Len(RunOrder))
     /\ (pc = "idle" /\ runs > 0) =>
          (n >= 2 /\ runLog[n].op = "close" /\ fdOpen = {} /\ fdConn = {})
     /\ pc # "idle" => (ENABLED HandlerStep /\ (n > 0 => runLog[n].op # "close"))

\* A run in which connect failed after socket had opened a descriptor: the run
\* made no request and its one close released the descriptor.
C14_Witness ==
  /\ pc = "idle"
  /\ runLog = <<[op |-> "init", ret |-> -EINVAL], [op |-> "close", ret |-> 0]>>
  /\ sock \in Fds
  /\ fdOpen = {}
  /\ ~last.badFd

\* The response the GET handler has built, if the last request went to it.
BuiltResponses ==
  IF srv.status = "Handled" /\ srv.resp # NoResponse THEN {srv.resp} ELSE {}

\* Options in non-decreasing number order, then at most one marker directly
\* followed by the payload, and nothing after the payload.
WellAppended(a) ==
  /\ \A i, j \in 1..Len(a) :
       (i < j /\ a[i].part = "option" /\ a[j].part = "option") => a[i].num <= a[j].num
  /\ \A i \in 1..Len(a) :
       a[i].part = "marker" => (i = Len(a) - 1 /\ a[Len(a)].part = "payload")
  /\ \A i \in 1..Len(a) :
       a[i].part = "payload" => (i = Len(a) /\ i > 1 /\ a[i - 1].part = "marker")

\* C15: in every message the program builds (the three client requests and the
\* GET response) the options are appended in non-decreasing option-number
\* order, the URI-Path segments in the order of the path (42770/0/8 for the
\* toggle, 42770/0/3 for on-time, 42770/0/5 for the GET), and the payload
\* marker and the payload after the last option.
C15_AppendOrder ==
  /\ \A i \in 1..Len(sent) :
       LET m == sent[i]
       IN /\ WellAppended(m.appended)
          /\ m.code = "GET" => UriPath(m) = <<Seg42770, <<"0">>, <<"5">> >>
          /\ (m.code = "PUT" /\ m.payload = <<>>) =>
               UriPath(m) = <<Seg42770, <<"0">>, <<"8">> >>
          /\ (m.code = "PUT" /\ m.payload # <<>>) =>
               (UriPath(m) = <<Seg42770, <<"0">>, <<"3">> >> /\ m.payload = <<"2", "0">>)
  /\ \A m \in BuiltResponses :
       /\ WellAppended(m.appended)
       /\ Len(m.appended) = 3
       /\ m.appended[1].num = COAP_OPTION_CONTENT_FORMAT

\* All four messages have been built: the three requests of a session went out
\* and the GET handler has built a response.
C15_Witness ==
  /\ Len(sent) = 3
  /\ sent[2].marker
  /\ srv.status = "Handled"
  /\ srv.resp # NoResponse

\* Positions of button_event_handler between a successful init and the close.
InSession == pc \in {"toggle", "sleep1", "ontime", "sleep2", "get"}

\* C16: client sessions never overlap: a run of the handler (and with it the
\* init that assigns the global socket) starts only when no run is in progress
\* and no descriptor is open, whatever button edges arrive during the two
\* waits; while a run is between init and close the global socket denotes the
\* connected descriptor that run opened, and it is assigned only by that run's
\* init and released only by that run's close.
C16_NoSessionOverlap ==
  /\ [](Cardinality(fdOpen) <= 1 /\ (InSession => sock \in fdConn))
  /\ [][/\ runs' # runs => (pc = "idle" /\ pc' = "init" /\ fdOpen = {})
        /\ (sock' # sock \/ fdOpen' # fdOpen) =>
             (runs' = runs /\ pc \in {"init", "end"})]_vars

\* The cooldown expired during the first wait of a run and the button moved
\* again: the work item is queued, its timer runs, and the session goes on.
C16_Witness ==
  /\ pc = "sleep1"
  /\ queued
  /\ timer > 0
  /\ sock \in fdConn
  /\ runs = 1

\* C17: GET on 42769/0/1 is answered with code Content, content format
\* text/plain and a payload of exactly one byte, "1" if the output is on and
\* "0" if it is off, and leaves the output as it was.
C17_StateGetOneByte ==
  (srv # NoDispatch /\ srv.invoked = {"on_off_object_state_get"}) =>
    /\ srv.resp.code = COAP_RESPONSE_CODE_CONTENT
    /\ srv.resp.options = <<[num |-> COAP_OPTION_CONTENT_FORMAT,
                             val |-> COAP_CONTENT_FORMAT_TEXT_PLAIN]>>
    /\ srv.resp.payload = (IF srv.ledBefore THEN <<"1">> ELSE <<"0">>)
    /\ led = srv.ledBefore

\* The last request went to handler h.
HandledBy(h) == srv # NoDispatch /\ srv.invoked = {h}

\* C18: the PUT handlers of 42769/0/2, /3 and /4 are total and return Changed
\* whatever the payload: the first leaves the output on, the second off, the
\* third inverted; and a second switch PUT applied to what the first left
\* restores the output.
C18_FixedPuts ==
  /\ \A h \in {"on_off_object_on_put", "on_off_object_off_put", "on_off_object_switch_put"} :
       HandledBy(h) =>
         /\ srv.status = "Handled"
         /\ srv.hret = COAP_RESPONSE_CODE_CHANGED
         /\ Cardinality(CallHandler(h, srv.req, srv.ledBefore)) = 1
  /\ HandledBy("on_off_object_on_put") => led = TRUE
  /\ HandledBy("on_off_object_off_put") => led = FALSE
  /\ HandledBy("on_off_object_switch_put") =>
       /\ led = ~srv.ledBefore
       /\ \A o \in on_off_object_switch_put(srv.req, led) :
            o.led = srv.ledBefore /\ o.hret = COAP_RESPONSE_CODE_CHANGED /\ ~o.fault

\* A switch PUT with a payload of the greatest length found the output off and
\* left it on, as it was at the start.
C18_Witness ==
  /\ HandledBy("on_off_object_switch_put")
  /\ Len(srv.req.payload) = MaxPayload
  /\ ~srv.ledBefore
  /\ led

\* C19: the handler is invoked only when the full cooldown has elapsed since
\* the most recent edge (the timer of cooldown_work has run down and no edge
\* has restarted it), its event is the pin level as it was at that expiry, and
\* nothing is invoked when no handler is registered.
C19_Debounced ==
  [][/\ runs' # runs =>
          /\ timer = 0
          /\ evt' = (IF pin THEN "PRESSED" ELSE "RELEASED")
     /\ ~button_cb => runs' = runs]_vars

\* Positions in the buffer log of the last client function with event e on buffer b.
HeapIdx(b, e) == {i \in 1..Len(heap) : heap[i].buf = b /\ heap[i].ev = e}

\* C20: every buffer a client function allocates (the request buffer of the
\* three request functions, the reply buffer of the poll) is freed exactly once
\* before the function returns, whichever way it returns, and is written, sent,
\* received into and parsed only between its allocation and its free; when an
\* allocation fails the function returns -ENOMEM and sends nothing from then
\* on (nothing at all when it is the request buffer).
C20_BuffersFreedOnce ==
  /\ last.op \in RequestOps => heap # <<>>
  /\ \A b \in {"request", "reply"} :
       /\ Cardinality(HeapIdx(b, "alloc")) + Cardinality(HeapIdx(b, "nomem")) <= 1
       /\ Cardinality(HeapIdx(b, "free")) = Cardinality(HeapIdx(b, "alloc"))
       /\ \A i \in 1..Len(heap) :
            (heap[i].buf = b /\ heap[i].ev \in {"write", "send", "recv", "parse"}) =>
              \E a \in HeapIdx(b, "alloc"), f \in HeapIdx(b, "free") : a < i /\ i < f
       /\ \A i \in HeapIdx(b, "nomem") :
            /\ ret = -ENOMEM
            /\ \A j \in 1..Len(heap) : j > i => heap[j].ev # "send"
  /\ HeapIdx("request", "nomem") # {} => (heap = <<Ev("request", "nomem")>> /\ last.sendr = 0)
  /\ \A i \in 1..Len(heap) :
       heap[i].buf = "reply" =>
         \E a \in HeapIdx("request", "alloc"), f \in HeapIdx("request", "free") : a < i /\ i < f

\* A GET whose poll received and parsed a datagram: both buffers were
\* allocated, used and freed, the reply buffer within the life of the request buffer.
C20_Witness ==
  /\ last.op = "onoff_get"
  /\ HeapIdx("reply", "parse") # {}
  /\ Len(heap) = 8
  /\ heap[Len(heap)] = Ev("request", "free")

====
